---- MODULE Spec2Model ----
(***************************************************************************)
(* Model of aws-config's profile credential executor                       *)
(* (src/aws/rust-runtime/aws-config/src/profile/credential/exec.rs):       *)
(* the named provider registry, ProviderChain::from_repr, the chain        *)
(* accessors, AssumeRoleProvider::credentials, and the chain-level fold    *)
(* that drives the hops one after the other.                               *)
(***************************************************************************)
EXTENDS Integers, Sequences, FiniteSets, TLC

VARIABLES
    providers,      \* NamedProviderFactory.providers: name -> registered provider
    client_region,  \* ClientConfiguration.region (also from_repr's `region`)
    built,          \* the builds so far, each [repr, result]: from_repr's input and output
    exec,           \* execution id -> the state of one execution of the chain
    calls,          \* every operation handed to core_client.call, with its outcome
    clock,          \* the time default_session_name reads
    generated,      \* every default_session_name invocation: [tag, site]
    lookups,        \* registry lookups performed: sequence of names
    base_io         \* file/network operations done by the base provider

vars == <<providers, client_region, built, exec, calls, clock, generated,
          lookups, base_io>>

(***************************************************************************)
(* Bounds                                                                  *)
(***************************************************************************)
MaxHops == 2

(***************************************************************************)
(* Option<T> and Result<T, E>                                              *)
(***************************************************************************)
None == <<>>
Some(x) == <<x>>
Unwrap(o) == o[1]
unwrap_or_else(o, d) == IF o = None THEN d ELSE o[1]
ok_or(o, e) == IF o = None THEN [tag |-> "Err", error |-> e]
               ELSE [tag |-> "Ok", val |-> o[1]]
Ok(v) == [tag |-> "Ok", val |-> v]
Err(e) == [tag |-> "Err", error |-> e]
IsOk(r) == r.tag = "Ok"
IsErr(r) == r.tag = "Err"

(***************************************************************************)
(* Credentials and the inputs of the model                                 *)
(***************************************************************************)
Credentials(ak, sk, tok, exp, pn) ==
    [access_key_id |-> ak, secret_access_key |-> sk, session_token |-> tok,
     expires_after |-> exp, provider_name |-> pn]

\* The names a registry may hold, and the names a profile may refer to.
ProviderNames == {"Environment", "Ecs"}
SourceNames == ProviderNames \cup {"floozle"}

\* The provider object registered under a name (an Arc<dyn ProvideCredentials>).
Handle(n) == [kind |-> "Named", id |-> n]

Registries == { [n \in S |-> Handle(n)] : S \in SUBSET ProviderNames }

Regions == {None, Some("us-east-1")}

AccessKeys ==
    { Credentials("AKIDEXAMPLE", "secret", tok, None, "ProfileFile") :
        tok \in {None, Some("static-token")} }

RoleArns == {"arn:aws:iam::111111111111:role/A", ""}
ExternalIds == {None, Some("eid")}
SessionNames == {None, Some("sess")}

\* repr::RoleArn: one declared hop.
HopSpecs ==
    [role_arn : RoleArns, external_id : ExternalIds, session_name : SessionNames]

\* repr::BaseProvider
BaseProviders ==
    [tag : {"NamedSource"}, name : SourceNames]
    \cup [tag : {"AccessKey"}, key : AccessKeys]
    \cup [tag : {"WebIdentityTokenRole"},
          role_arn : {"arn:aws:iam::111111111111:role/W"},
          web_identity_token_file : {"/token.jwt"},
          session_name : SessionNames]

SeqsUpTo(S, n) == UNION { [1..m -> S] : m \in 0..n }

\* repr::ProfileChain
ProfileChains == [base : BaseProviders, chain : SeqsUpTo(HopSpecs, MaxHops)]

(***************************************************************************)
(* sts::util                                                               *)
(***************************************************************************)
\* sts::util::default_session_name(base): the purpose tag, then the time.
default_session_name(base, now) == base \o "-" \o ToString(now)

\* sts::util::into_credentials(sts_credentials, provider_name)
into_credentials(sts_credentials, provider_name) ==
    Ok(Credentials(sts_credentials.access_key_id,
                   sts_credentials.secret_access_key,
                   Some(sts_credentials.session_token),
                   Some(sts_credentials.expiration),
                   provider_name))

(***************************************************************************)
(* named::NamedProviderFactory                                             *)
(***************************************************************************)
\* A plausible slip: the lookup hands out a copy of the provider, a new
\* object, instead of another handle to the registered one.
provider_copied(factory, name) ==
    IF name \in DOMAIN factory
    THEN Some([kind |-> factory[name].kind, id |-> factory[name].id \o " (copy)"])
    ELSE None

\* NamedProviderFactory::provider: self.providers.get(name).cloned()
provider(factory, name) ==
    IF name \in DOMAIN factory THEN Some(factory[name]) ELSE None

\* A plausible slip: the provider taken out of the map (remove) instead of
\* cloned out of it (get).
providers_after_lookup_removed(factory, name) ==
    [n \in DOMAIN factory \ {name} |-> factory[n]]

\* The map after provider(name): the lookup borrows the factory (&self) and
\* clones the handle, so the map is what it was.
providers_after_lookup(factory, name) == factory

(***************************************************************************)
(* ProviderChain::from_repr                                                *)
(***************************************************************************)
WebIdentitySessionTag == "web-identity-token-profile"

\* &str -> String: the same text, owned.
into(s) == s

\* Option::map(|s| s.into())
map_into(o) == IF o = None THEN None ELSE Some(into(o[1]))

\* A plausible slip: the declared session name ignored, the default always
\* generated.
web_identity_provider_always_default(b, region, now) ==
    [kind |-> "WebIdentityTokenCredentialsProvider",
     static_configuration |->
        [web_identity_token_file |-> into(b.web_identity_token_file),
         role_arn |-> into(b.role_arn),
         session_name |-> default_session_name(WebIdentitySessionTag, now)],
     region |-> region]

\* The WebIdentityTokenRole arm of from_repr's match.
web_identity_provider(b, region, now) ==
    [kind |-> "WebIdentityTokenCredentialsProvider",
     static_configuration |->
        [web_identity_token_file |-> into(b.web_identity_token_file),
         role_arn |-> into(b.role_arn),
         session_name |->
            unwrap_or_else(map_into(b.session_name),
                default_session_name(WebIdentitySessionTag, now))],
     region |-> region]

\* A plausible slip: a name the registry does not hold falls back to an
\* empty static provider instead of failing.
resolve_base_fallback(b, factory, region, now) ==
    CASE b.tag = "NamedSource" ->
            Ok(unwrap_or_else(provider(factory, b.name),
                    [kind |-> "Credentials",
                     creds |-> Credentials("", "", None, None, "Default")]))
      [] b.tag = "AccessKey" ->
            Ok([kind |-> "Credentials", creds |-> b.key])
      [] b.tag = "WebIdentityTokenRole" ->
            Ok(web_identity_provider(b, region, now))

\* A plausible slip: the static provider rebuilt field by field, an absent
\* session token becoming an empty one (unwrap_or_default) instead of the key
\* being cloned.
resolve_base_empty_token(b, factory, region, now) ==
    CASE b.tag = "NamedSource" ->
            ok_or(provider(factory, b.name),
                  [kind |-> "UnknownProvider", name |-> into(b.name)])
      [] b.tag = "AccessKey" ->
            Ok([kind |-> "Credentials",
                creds |-> Credentials(b.key.access_key_id, b.key.secret_access_key,
                                      Some(unwrap_or_else(b.key.session_token, "")),
                                      None, b.key.provider_name)])
      [] b.tag = "WebIdentityTokenRole" ->
            Ok(web_identity_provider(b, region, now))

\* The `match repr.base()` of from_repr: the base provider, or UnknownProvider.
resolve_base(b, factory, region, now) ==
    CASE b.tag = "NamedSource" ->
            ok_or(provider(factory, b.name),
                  [kind |-> "UnknownProvider", name |-> into(b.name)])
      [] b.tag = "AccessKey" ->
            Ok([kind |-> "Credentials", creds |-> b.key])
      [] b.tag = "WebIdentityTokenRole" ->
            Ok(web_identity_provider(b, region, now))

\* A plausible slip: the hops collected in the wrong order.
resolve_chain_reversed(hops) ==
    [i \in 1..Len(hops) |->
        [role_arn |-> into(hops[Len(hops) + 1 - i].role_arn),
         external_id |-> map_into(hops[Len(hops) + 1 - i].external_id),
         session_name |-> map_into(hops[Len(hops) + 1 - i].session_name)]]

\* A plausible slip: the hop's default session name filled in by the build.
resolve_chain_named_at_build(hops) ==
    [i \in 1..Len(hops) |->
        [role_arn |-> into(hops[i].role_arn),
         external_id |-> map_into(hops[i].external_id),
         session_name |->
            Some(unwrap_or_else(map_into(hops[i].session_name),
                    default_session_name("assume-role-from-profile", clock)))]]

\* The `repr.chain().iter().map(..).collect()` of from_repr.
resolve_chain(hops) ==
    [i \in 1..Len(hops) |->
        [role_arn |-> into(hops[i].role_arn),
         external_id |-> map_into(hops[i].external_id),
         session_name |-> map_into(hops[i].session_name)]]

\* A plausible slip: the build rejects a hop whose role_arn is empty.
from_repr_validating(region, repr, factory, now) ==
    LET b == resolve_base(repr.base, factory, region, now)
    IN  IF IsErr(b) THEN b
        ELSE IF \E i \in 1..Len(repr.chain) : repr.chain[i].role_arn = ""
        THEN Err([kind |-> "InvalidRoleArn"])
        ELSE Ok([base |-> b.val, chain |-> resolve_chain(repr.chain)])

\* ProviderChain::from_repr: the base first, then the hops.
from_repr(region, repr, factory, now) ==
    LET b == resolve_base(repr.base, factory, region, now)
    IN  IF IsErr(b) THEN b
        ELSE Ok([base |-> b.val, chain |-> resolve_chain(repr.chain)])

\* A plausible slip: the name checked with one lookup and fetched with another.
from_repr_lookups_twice(repr) ==
    IF repr.base.tag = "NamedSource" THEN <<repr.base.name, repr.base.name>>
    ELSE <<>>

\* The registry lookups from_repr performs on `repr`.
from_repr_lookups(repr) ==
    IF repr.base.tag = "NamedSource" THEN <<repr.base.name>> ELSE <<>>

\* The default_session_name invocations from_repr performs on `repr`.
from_repr_generated(repr) ==
    IF repr.base.tag = "WebIdentityTokenRole" /\ repr.base.session_name = None
    THEN <<[tag |-> WebIdentitySessionTag, site |-> "from_repr"]>>
    ELSE <<>>

\* A plausible slip: the slice handed out back to front.
chain_reversed(pc) == [i \in 1..Len(pc.chain) |-> pc.chain[Len(pc.chain) + 1 - i]]

\* The registry once from_repr has run on `repr`.
from_repr_factory(repr, factory) ==
    IF repr.base.tag = "NamedSource"
    THEN providers_after_lookup(factory, repr.base.name)
    ELSE factory

\* ProviderChain::base and ProviderChain::chain
base(pc) == pc.base
chain(pc) == pc.chain

(***************************************************************************)
(* The remote delegation service and the base providers (the environment)  *)
(***************************************************************************)
\* What can go wrong in core_client.call: a transport or a service error.
SdkErrors == {"DispatchFailure", "AccessDenied"}

\* The temporary credentials the service issues for the n-th call it receives.
StsCredentials(n) ==
    [access_key_id |-> "ASIA" \o ToString(n),
     secret_access_key |-> "sts-secret",
     session_token |-> "sts-token-" \o ToString(n),
     expiration |-> "expiry"]

\* The outcomes of core_client.call for the n-th call: AssumeRoleOutput or SdkError.
StsResponses(n) ==
    {Ok([credentials |-> StsCredentials(n)])} \cup { Err(c) : c \in SdkErrors }

\* ProvideCredentials::provide_credentials of a base provider: the possible
\* outcomes, each with the file/network operations it took.
provide_credentials(b) ==
    CASE b.kind = "Credentials" ->
            { [result |-> Ok(b.creds), io |-> 0] }
      [] b.kind = "Named" ->
            { [result |-> Ok(Credentials("AK" \o b.id, "named-secret", None, None, b.id)),
               io |-> 1],
              [result |-> Err([kind |-> "CredentialsNotLoaded"]), io |-> 1] }
      [] b.kind = "WebIdentityTokenCredentialsProvider" ->
            { [result |-> Ok(Credentials("ASIAWEB", "web-secret", Some("web-token"),
                                         Some("expiry"), "WebIdentityToken")),
               io |-> 2],
              [result |-> Err([kind |-> "ProviderError", cause |-> "token file"]),
               io |-> 1] }

(***************************************************************************)
(* AssumeRoleProvider::credentials                                         *)
(***************************************************************************)
HopSessionTag == "assume-role-from-profile"

\* A plausible slip: the purpose tag copied from the web identity provider.
hop_session_name_web_tag(hop, now) ==
    unwrap_or_else(hop.session_name,
                   default_session_name(WebIdentitySessionTag, now))

\* self.session_name.as_ref().cloned().unwrap_or_else(|| default_session_name(..))
hop_session_name(hop, now) ==
    unwrap_or_else(hop.session_name, default_session_name(HopSessionTag, now))

\* A plausible slip: the Config built without .credentials_provider(..), so the
\* call is made with no calling identity.
credentials_request_unsigned(hop, input_credentials, client_config, now) ==
    [config |-> [credentials_provider |-> None,
                 region |-> client_config.region],
     role_arn |-> hop.role_arn,
     external_id |-> hop.external_id,
     role_session_name |-> hop_session_name(hop, now)]

\* The credentials most recently issued to any caller of the service.
LastIssued(log) ==
    LET answered == { i \in 1..Len(log) :
                        log[i].status = "answered" /\ IsOk(log[i].response[1]) }
        last == CHOOSE i \in answered : \A j \in answered : j <= i
    IN  into_credentials(log[last].response[1].val.credentials,
                         "AssumeRoleProvider").val

\* A plausible slip: the hop keeps the credentials last issued in state shared
\* by every execution, and signs with them instead of with its input.
credentials_request_shared(hop, input_credentials, client_config, now) ==
    [config |->
        [credentials_provider |->
            IF \E i \in 1..Len(calls) :
                    calls[i].status = "answered" /\ IsOk(calls[i].response[1])
            THEN LastIssued(calls)
            ELSE input_credentials,
         region |-> client_config.region],
     role_arn |-> hop.role_arn,
     external_id |-> hop.external_id,
     role_session_name |-> hop_session_name(hop, now)]

\* A plausible slip: external_id(..) with a default instead of
\* set_external_id(..), so an absent external id is sent as an empty one.
credentials_request_empty_external_id(hop, input_credentials, client_config, now) ==
    [config |-> [credentials_provider |-> input_credentials,
                 region |-> client_config.region],
     role_arn |-> hop.role_arn,
     external_id |-> Some(unwrap_or_else(hop.external_id, "")),
     role_session_name |-> hop_session_name(hop, now)]

\* Everything up to the call: the Config and the AssumeRole operation made with it.
credentials_request(hop, input_credentials, client_config, now) ==
    [config |-> [credentials_provider |-> input_credentials,
                 region |-> client_config.region],
     role_arn |-> hop.role_arn,
     external_id |-> hop.external_id,
     role_session_name |-> hop_session_name(hop, now)]

\* A plausible slip: a failed call answered with empty credentials, not an error.
credentials_result_swallowed(response) ==
    IF IsErr(response)
    THEN Ok(Credentials("", "", None, None, "AssumeRoleProvider"))
    ELSE into_credentials(response.val.credentials, "AssumeRoleProvider")

\* A plausible slip: the error mapped to a ProviderError that drops its cause.
credentials_result_no_cause(response) ==
    IF IsErr(response)
    THEN Err([kind |-> "ProviderError", cause |-> "unknown"])
    ELSE into_credentials(response.val.credentials, "AssumeRoleProvider")

\* A plausible slip: the response's session token left out of the result.
credentials_result_no_token(response) ==
    IF IsErr(response)
    THEN Err([kind |-> "ProviderError", cause |-> response.error])
    ELSE Ok(Credentials(response.val.credentials.access_key_id,
                        response.val.credentials.secret_access_key,
                        None, Some(response.val.credentials.expiration),
                        "AssumeRoleProvider"))

\* Everything after the await: map_err, `?`, .credentials, into_credentials.
credentials_result(response) ==
    IF IsErr(response)
    THEN Err([kind |-> "ProviderError", cause |-> response.error])
    ELSE into_credentials(response.val.credentials, "AssumeRoleProvider")

\* A plausible slip: the generated session name kept in the hop for next time.
hop_after_credentials_cached(hop, session_name) ==
    [hop EXCEPT !.session_name = Some(session_name)]

\* The hop once credentials() has run up to its call: it borrows the hop
\* (&self) and only reads and clones its fields, so the hop is what it was.
hop_after_credentials(hop, session_name) == hop

\* The default_session_name invocations one execution of `hop` performs.
credentials_generated(hop) ==
    IF hop.session_name = None
    THEN <<[tag |-> HopSessionTag, site |-> "credentials"]>>
    ELSE <<>>

\* A plausible slip: cancellation answered with the credentials held so far.
on_cancel_partial(x) ==
    [x EXCEPT !.pc = "cancelled",
              !.result = IF x.creds = None THEN None ELSE Some(Ok(x.creds[1]))]

\* Dropping the future while it is suspended in `.await`: the frame, with the
\* upstream credentials moved into it, is discarded and nothing is returned.
on_cancel(x) == [x EXCEPT !.pc = "cancelled", !.result = None, !.creds = None]

(***************************************************************************)
(* The chain-level fold: base, then each hop on the previous result        *)
(***************************************************************************)
ExecIds == {"e1"}

IdleExec == [pc |-> "idle", steps |-> <<>>, creds |-> None, result |-> None]

\* The ProviderChain the executions run, once from_repr has returned Ok.
TheChain == built[1].result.val

\* The fold stops at the first failure and after the last hop.
fold_finished(steps, hops) ==
    IsErr(steps[Len(steps)]) \/ Len(steps) > Len(hops)

\* The accumulator: the credentials the next hop is called with.
fold_accumulator(steps) == steps[Len(steps)].val

\* The hop the fold runs after `steps` (the base, then the hops so far).
fold_next_hop(steps) == Len(steps)

Init ==
    /\ providers \in Registries
    /\ client_region \in Regions
    /\ built = None
    /\ exec = [e \in ExecIds |-> IdleExec]
    /\ calls = <<>>
    /\ clock = 0
    /\ generated = <<>>
    /\ lookups = <<>>
    /\ base_io = 0

\* One call of ProviderChain::from_repr.
Build ==
    /\ built = None
    /\ \E repr \in ProfileChains :
        /\ built' = Some([repr |-> repr,
                          result |-> from_repr(client_region, repr, providers, clock)])
        /\ lookups' = lookups \o from_repr_lookups(repr)
        /\ generated' = generated \o from_repr_generated(repr)
        /\ clock' = clock + Len(from_repr_generated(repr))
        /\ providers' = from_repr_factory(repr, providers)
    /\ UNCHANGED <<client_region, exec, calls, base_io>>

\* An execution starts: base().provide_credentials() is called and awaited.
ExecStart(e) ==
    /\ built /= None
    /\ IsOk(built[1].result)
    /\ exec[e].pc = "idle"
    /\ exec' = [exec EXCEPT ![e].pc = "base"]
    /\ UNCHANGED <<providers, client_region, built, calls, clock, generated,
                   lookups, base_io>>

\* The fold takes the result `r` of a step: it ends, or it runs the next hop up
\* to its await (the request is handed to core_client.call).  `cs` is the call
\* log once the step's own response is recorded.
Advance(e, r, cs) ==
    LET steps == Append(exec[e].steps, r)
        hops == chain(TheChain)
    IN  IF fold_finished(steps, hops)
        THEN /\ exec' = [exec EXCEPT ![e] =
                            [pc |-> "done", steps |-> steps, creds |-> None,
                             result |-> Some(r)]]
             /\ calls' = cs
             /\ UNCHANGED <<built, clock, generated>>
        ELSE LET k == fold_next_hop(steps)
                 hop == hops[k]
                 input == fold_accumulator(steps)
             IN /\ built' = [built EXCEPT ![1].result.val.chain[k] =
                                hop_after_credentials(hop,
                                    hop_session_name(hop, clock))]
                /\ exec' = [exec EXCEPT ![e] =
                            [pc |-> "call", steps |-> steps, creds |-> Some(input),
                             result |-> None]]
                /\ calls' = Append(cs,
                        [exec |-> e, hop |-> k, status |-> "inflight",
                         request |-> credentials_request(hop, input,
                                        [region |-> client_region], clock),
                         response |-> None])
                /\ generated' = generated \o credentials_generated(hop)
                /\ clock' = clock + Len(credentials_generated(hop))

\* The base provider answers.
BaseDone(e) ==
    /\ exec[e].pc = "base"
    /\ \E out \in provide_credentials(base(TheChain)) :
        /\ base_io' = base_io + out.io
        /\ Advance(e, out.result, calls)
    /\ UNCHANGED <<providers, client_region, lookups>>

\* The call in flight for execution e.
InFlight(e) ==
    CHOOSE i \in 1..Len(calls) : calls[i].exec = e /\ calls[i].status = "inflight"

\* The delegation service answers the call in flight.
HopDone(e) ==
    /\ exec[e].pc = "call"
    /\ LET i == InFlight(e)
       IN \E resp \in StsResponses(i) :
            Advance(e, credentials_result(resp),
                    [calls EXCEPT ![i].status = "answered",
                                  ![i].response = Some(resp)])
    /\ UNCHANGED <<providers, client_region, lookups, base_io>>

\* The task running the execution is cancelled at a suspension point.
Cancel(e) ==
    /\ exec[e].pc \in {"base", "call"}
    /\ exec' = [exec EXCEPT ![e] = on_cancel(exec[e])]
    /\ calls' = IF exec[e].pc = "call"
                THEN [calls EXCEPT ![InFlight(e)].status = "dropped"]
                ELSE calls
    /\ UNCHANGED <<providers, client_region, built, clock, generated, lookups,
                   base_io>>

Next ==
    \/ Build
    \/ \E e \in DOMAIN exec : ExecStart(e)
    \/ \E e \in DOMAIN exec : BaseDone(e)
    \/ \E e \in DOMAIN exec : HopDone(e)
    \/ \E e \in DOMAIN exec : Cancel(e)

Spec == Init /\ [][Next]_vars

(***************************************************************************)
(* Several executions of one chain, interleaved                            *)
(***************************************************************************)
ConcExecIds == {"e1", "e2"}

\* The chains the concurrent executions run: a static or a named base, and up
\* to MaxHops hops.
ConcChains ==
    [base : { b \in BaseProviders :
                \/ b.tag = "AccessKey" /\ b.key.session_token = None
                \/ b.tag = "NamedSource" /\ b.name = "Environment" },
     chain : SeqsUpTo({ h \in HopSpecs :
                          h.external_id = None /\ h.session_name = None
                          /\ h.role_arn /= "" }, MaxHops)]

InitConc ==
    /\ providers \in { r \in Registries : "Environment" \in DOMAIN r }
    /\ client_region \in Regions
    /\ built = None
    /\ exec = [e \in ConcExecIds |-> IdleExec]
    /\ calls = <<>>
    /\ clock = 0
    /\ generated = <<>>
    /\ lookups = <<>>
    /\ base_io = 0

\* One call of ProviderChain::from_repr, on one of the chains above.
BuildConc ==
    /\ built = None
    /\ \E repr \in ConcChains :
        /\ built' = Some([repr |-> repr,
                          result |-> from_repr(client_region, repr, providers, clock)])
        /\ lookups' = lookups \o from_repr_lookups(repr)
        /\ generated' = generated \o from_repr_generated(repr)
        /\ clock' = clock + Len(from_repr_generated(repr))
        /\ providers' = from_repr_factory(repr, providers)
    /\ UNCHANGED <<client_region, exec, calls, base_io>>

NextConc ==
    \/ BuildConc
    \/ \E e \in DOMAIN exec : ExecStart(e)
    \/ \E e \in DOMAIN exec : BaseDone(e)
    \/ \E e \in DOMAIN exec : HopDone(e)
    \/ \E e \in DOMAIN exec : Cancel(e)

SpecConc == InitConc /\ [][NextConc]_vars

(***************************************************************************)
(* Two chains built against one registry                                   *)
(***************************************************************************)
\* The second chain: a named base, with or without a hop.
SecondChains ==
    [base : [tag : {"NamedSource"}, name : SourceNames],
     chain : SeqsUpTo({ h \in HopSpecs :
                          h.external_id = None /\ h.session_name = None
                          /\ h.role_arn /= "" }, 1)]

\* Another call of ProviderChain::from_repr, with the same factory.
BuildAgain ==
    /\ Len(built) = 1
    /\ \E repr \in SecondChains :
        /\ built' = Append(built,
                        [repr |-> repr,
                         result |-> from_repr(client_region, repr, providers, clock)])
        /\ lookups' = lookups \o from_repr_lookups(repr)
        /\ generated' = generated \o from_repr_generated(repr)
        /\ clock' = clock + Len(from_repr_generated(repr))
        /\ providers' = from_repr_factory(repr, providers)
    /\ UNCHANGED <<client_region, exec, calls, base_io>>

NextShare ==
    \/ Build
    \/ BuildAgain

SpecShare == Init /\ [][NextShare]_vars

(***************************************************************************)
(* Properties                                                              *)
(***************************************************************************)
Built == built /= None
Repr == built[1].repr
Result == built[1].result

\* The calls execution e has issued, in the order it issued them.
IsCallOf(e, c) == c.exec = e
ExecCalls(e) == SelectSeq(calls, LAMBDA c : IsCallOf(e, c))

\* Nothing has been executed: no execution has left its initial state.
NothingExecuted == \A e \in DOMAIN exec : exec[e] = IdleExec

\* The credentials the service issued in `response` are the credentials `c`.
SameCredentials(c, response) ==
    /\ c.access_key_id = response.val.credentials.access_key_id
    /\ c.secret_access_key = response.val.credentials.secret_access_key
    /\ c.session_token = Some(response.val.credentials.session_token)

\* C1: when the base is NamedSource(X) and the registry holds no X, whatever
\* the declared hops, from_repr returns exactly the error UnknownProvider{X}
\* (no chain, no hop), and no network call is ever issued.
C1_UnknownProvider ==
    (Built /\ Repr.base.tag = "NamedSource" /\ Repr.base.name \notin DOMAIN providers)
    => /\ Result = [tag |-> "Err",
                    error |-> [kind |-> "UnknownProvider", name |-> Repr.base.name]]
       /\ calls = <<>>
       /\ base_io = 0
       /\ NothingExecuted

C1_Witness ==
    /\ Built
    /\ Repr.base = [tag |-> "NamedSource", name |-> "floozle"]
    /\ Len(Repr.chain) = MaxHops
    /\ DOMAIN providers = ProviderNames
    /\ IsErr(Result)

\* C2: when from_repr succeeds on N declared hops, the chain has exactly N
\* hops and the i-th hop carries the role_arn, external_id and session_name
\* of the i-th declared hop.
C2_HopsPreserved ==
    (Built /\ IsOk(Result))
    => /\ Len(chain(Result.val)) = Len(Repr.chain)
       /\ \A i \in 1..Len(Repr.chain) :
            /\ chain(Result.val)[i].role_arn = Repr.chain[i].role_arn
            /\ chain(Result.val)[i].external_id = Repr.chain[i].external_id
            /\ chain(Result.val)[i].session_name = Repr.chain[i].session_name

C2_Witness ==
    /\ Built
    /\ IsOk(Result)
    /\ Len(Repr.chain) = MaxHops
    /\ Repr.chain[1] /= Repr.chain[MaxHops]
    /\ Len(chain(Result.val)) = MaxHops

\* C3: within one execution the calls are issued in declaration order, the
\* call of hop 1 only once the base provider has supplied credentials, the
\* call of hop k+1 only once hop k's call has been answered with credentials,
\* and never two calls of the execution in flight at once.
C3_Sequential ==
    \A e \in DOMAIN exec :
        LET cs == ExecCalls(e)
        IN  /\ \A j \in 1..Len(cs) :
                /\ cs[j].hop = j
                /\ j <= Len(Repr.chain)
                /\ cs[j].request.role_arn = Repr.chain[j].role_arn
                /\ cs[j].request.external_id = Repr.chain[j].external_id
                /\ Len(exec[e].steps) >= j
                /\ IsOk(exec[e].steps[1])
                /\ j < Len(cs) =>
                    /\ cs[j].status = "answered"
                    /\ IsOk(Unwrap(cs[j].response))
                    /\ IsOk(exec[e].steps[j + 1])
            /\ Cardinality({ j \in 1..Len(cs) : cs[j].status = "inflight" }) <= 1

C3_Witness ==
    \E e \in DOMAIN exec :
        /\ Len(ExecCalls(e)) = MaxHops
        /\ ExecCalls(e)[MaxHops].status = "inflight"
        /\ Repr.chain[1].role_arn /= Repr.chain[MaxHops].role_arn

\* C4: the calling identity of hop 1's call is the credentials the base
\* provider supplied, that of hop k's call (k >= 2) the credentials issued in
\* the answer to hop k-1's call, and never the credentials of an earlier step.
C4_CallerIdentity ==
    \A e \in DOMAIN exec :
        LET cs == ExecCalls(e)
            steps == exec[e].steps
        IN  \A k \in 1..Len(cs) :
                LET identity == cs[k].request.config.credentials_provider
                IN  /\ k = 1 => identity = steps[1].val
                    /\ k >= 2 =>
                        SameCredentials(identity, Unwrap(cs[k - 1].response))
                    /\ identity = steps[k].val
                    /\ \A j \in 1..(k - 1) : identity /= steps[j].val

C4_Witness ==
    \E e \in DOMAIN exec :
        /\ Len(ExecCalls(e)) = MaxHops
        /\ MaxHops >= 2
        /\ ExecCalls(e)[MaxHops].request.config.credentials_provider.session_token
              = Some(Unwrap(ExecCalls(e)[MaxHops - 1].response).val.credentials.session_token)

\* C5: when the base provider fails, no call is ever issued; when the call of
\* hop k fails, no call of a later hop is issued; in both cases the execution
\* is over and its result is that failure.
C5_HaltsOnFailure ==
    \A e \in DOMAIN exec :
        LET cs == ExecCalls(e)
            steps == exec[e].steps
        IN  /\ (Len(steps) >= 1 /\ IsErr(steps[1])) =>
                /\ cs = <<>>
                /\ exec[e].pc = "done"
                /\ exec[e].result = Some(steps[1])
            /\ \A k \in 1..Len(cs) :
                (cs[k].status = "answered" /\ IsErr(Unwrap(cs[k].response))) =>
                    /\ Len(cs) = k
                    /\ exec[e].pc = "done"
                    /\ exec[e].result =
                        Some(Err([kind |-> "ProviderError",
                                  cause |-> Unwrap(cs[k].response).error]))

C5_Witness ==
    \E e \in DOMAIN exec :
        /\ Len(ExecCalls(e)) = 1
        /\ Len(Repr.chain) >= 2
        /\ ExecCalls(e)[1].status = "answered"
        /\ IsErr(Unwrap(ExecCalls(e)[1].response))
        /\ exec[e].pc = "done"

\* The calls execution e has issued for its hop k.
HopCalls(e, k) == { i \in 1..Len(calls) : calls[i].exec = e /\ calls[i].hop = k }

\* C6: one execution of a hop issues exactly one call, whether it succeeds or
\* fails; when the call fails the hop returns ProviderError carrying the
\* error of that call, and no second call is made for the hop.
C6_OneCallPerHop ==
    \A e \in DOMAIN exec :
        LET steps == exec[e].steps
        IN  /\ \A k \in 1..MaxHops + 1 : Cardinality(HopCalls(e, k)) <= 1
            /\ \A k \in 1..(Len(steps) - 1) :
                /\ Cardinality(HopCalls(e, k)) = 1
                /\ \A i \in HopCalls(e, k) :
                    /\ calls[i].status = "answered"
                    /\ IsOk(steps[k + 1]) <=> IsOk(Unwrap(calls[i].response))
                    /\ IsErr(Unwrap(calls[i].response)) =>
                        steps[k + 1] =
                            Err([kind |-> "ProviderError",
                                 cause |-> Unwrap(calls[i].response).error])

C6_Witness ==
    \E e \in DOMAIN exec :
        /\ Len(exec[e].steps) = 3
        /\ IsOk(exec[e].steps[2])
        /\ exec[e].steps[3] = Err([kind |-> "ProviderError", cause |-> "AccessDenied"])
        /\ Cardinality(HopCalls(e, 2)) = 1

\* `name` starts with the purpose tag `tag`.
GeneratedFrom(name, tag) ==
    /\ Len(name) > Len(tag)
    /\ SubSeq(name, 1, Len(tag)) = tag

\* C7: the session name a hop's request carries is the hop's explicit
\* session_name when it has one; otherwise it is a non-empty name generated
\* from the tag "assume-role-from-profile", which is not the tag the web
\* identity base provider's default name is generated from.
C7_SessionName ==
    \A i \in 1..Len(calls) :
        LET declared == Repr.chain[calls[i].hop].session_name
            name == calls[i].request.role_session_name
        IN  /\ declared /= None => name = Unwrap(declared)
            /\ declared = None =>
                /\ name /= ""
                /\ GeneratedFrom(name, "assume-role-from-profile")
                /\ ~GeneratedFrom(name, WebIdentitySessionTag)
                /\ (Repr.base.tag = "WebIdentityTokenRole"
                        /\ Repr.base.session_name = None) =>
                    /\ name /= base(Result.val).static_configuration.session_name
                    /\ ~GeneratedFrom(
                            base(Result.val).static_configuration.session_name,
                            "assume-role-from-profile")

C7_Witness ==
    /\ Len(calls) = 2
    /\ Repr.base.tag = "WebIdentityTokenRole"
    /\ Repr.base.session_name = None
    /\ Repr.chain[1].session_name = None
    /\ Repr.chain[2].session_name = Some("sess")
    /\ calls[2].request.role_session_name = "sess"
    /\ calls[1].request.role_session_name = "assume-role-from-profile-1"

\* The execution's base provider has answered with `c`.
BaseSupplied(e, c) ==
    /\ Len(exec[e].steps) >= 1
    /\ exec[e].steps[1] = Ok(c)

\* C8: a StaticKeyPair base spec containing (ak, sk), no session token
\* declared, builds, and its base supplies credentials equal to (ak, sk, no
\* session token), with no network call during the build or the base
\* resolution.
C8_StaticRoundTrip ==
    (/\ Built
     /\ Repr.base.tag = "AccessKey"
     /\ Repr.base.key.session_token = None)
    => /\ IsOk(Result)
       /\ base_io = 0
       /\ NothingExecuted => calls = <<>>
       /\ \A e \in DOMAIN exec :
            Len(exec[e].steps) >= 1 =>
                /\ IsOk(exec[e].steps[1])
                /\ exec[e].steps[1].val.access_key_id = Repr.base.key.access_key_id
                /\ exec[e].steps[1].val.secret_access_key
                        = Repr.base.key.secret_access_key
                /\ exec[e].steps[1].val.session_token = None

C8_Witness ==
    /\ Built
    /\ Repr.base.tag = "AccessKey"
    /\ Repr.base.key.session_token = None
    /\ Len(Repr.chain) = 1
    /\ \E e \in DOMAIN exec :
        /\ BaseSupplied(e, Credentials("AKIDEXAMPLE", "secret", None, None,
                                       "ProfileFile"))
        /\ exec[e].pc = "call"
        /\ base_io = 0
        /\ Len(calls) = 1

\* The execution is over and every step of it succeeded.
AllSucceeded(e) ==
    /\ exec[e].pc = "done"
    /\ \A j \in 1..Len(exec[e].steps) : IsOk(exec[e].steps[j])
    /\ \A j \in 1..Len(ExecCalls(e)) :
        /\ ExecCalls(e)[j].status = "answered"
        /\ IsOk(Unwrap(ExecCalls(e)[j].response))

\* C9: an execution of a chain of N declared hops in which the base provider
\* and every call succeed issues exactly N calls, and its result is the
\* credentials issued in the answer to the last call (the base credentials
\* when N = 0), not those of an earlier step.
C9_FinalResult ==
    \A e \in DOMAIN exec :
        AllSucceeded(e) =>
            LET cs == ExecCalls(e)
                n == Len(Repr.chain)
                steps == exec[e].steps
            IN  /\ Len(cs) = n
                /\ exec[e].result /= None
                /\ IsOk(Unwrap(exec[e].result))
                /\ n = 0 => Unwrap(exec[e].result) = steps[1]
                /\ n > 0 =>
                    /\ SameCredentials(Unwrap(exec[e].result).val,
                                       Unwrap(cs[n].response))
                    /\ Unwrap(exec[e].result).val.provider_name
                            = "AssumeRoleProvider"
                    /\ \A j \in 1..n : Unwrap(exec[e].result) /= steps[j]

C9_Witness ==
    \E e \in DOMAIN exec :
        /\ Built
        /\ AllSucceeded(e)
        /\ Len(Repr.chain) = MaxHops
        /\ Len(ExecCalls(e)) = MaxHops

\* C10: an execution cancelled while suspended yields no credentials, and
\* from then on it stays cancelled: its state never changes again and no
\* further call is issued for it.
C10_Cancellation ==
    [][\A e \in DOMAIN exec :
        /\ exec'[e].pc = "cancelled" =>
            /\ exec'[e].result = None
            /\ exec'[e].creds = None
            /\ \A j \in 1..Len(ExecCalls(e)') :
                    ExecCalls(e)'[j].status /= "inflight"
        /\ exec[e].pc = "cancelled" =>
            /\ exec'[e] = exec[e]
            /\ ExecCalls(e)' = ExecCalls(e)]_vars

C10_Witness ==
    \E e \in DOMAIN exec :
        /\ exec[e].pc = "cancelled"
        /\ Len(Repr.chain) = MaxHops
        /\ Len(ExecCalls(e)) = 1
        /\ ExecCalls(e)[1].status = "dropped"
        /\ exec[e].result = None

\* C11: with several executions of the chain interleaved, the calling
\* identity of every call is the credentials the same execution obtained in
\* its previous step (its own base result, or the answer to its own previous
\* call), and never credentials issued in answer to another execution's call.
C11_OwnCredentials ==
    \A e \in DOMAIN exec :
        LET cs == ExecCalls(e)
            steps == exec[e].steps
        IN  \A k \in 1..Len(cs) :
                LET identity == cs[k].request.config.credentials_provider
                IN  /\ identity = steps[k].val
                    /\ k >= 2 =>
                        SameCredentials(identity, Unwrap(cs[k - 1].response))
                    /\ \A i \in 1..Len(calls) :
                        (calls[i].exec /= e /\ calls[i].status = "answered"
                            /\ IsOk(Unwrap(calls[i].response))) =>
                                ~SameCredentials(identity, Unwrap(calls[i].response))

C11_Witness ==
    /\ Len(calls) >= 4
    /\ calls[1].exec /= calls[2].exec
    /\ calls[3].exec /= calls[4].exec
    /\ calls[1].status = "answered"
    /\ calls[2].status = "answered"
    /\ calls[3].hop = 2
    /\ calls[4].hop = 2
    /\ calls[3].status = "inflight"
    /\ calls[4].status = "inflight"

\* C12: a build consults the registry at most once, and only for a
\* NamedSource base; once the chain is built, no step (starting an execution,
\* the base provider's answer, a hop's call or answer, a cancellation) looks
\* anything up, and the chain's base stays the provider resolved by the build.
C12_LookupsOnlyAtBuild ==
    [][/\ Len(lookups') <= 1
       /\ ~Built => lookups = <<>>
       /\ Built' =>
            lookups' = IF Repr'.base.tag = "NamedSource"
                       THEN <<Repr'.base.name>> ELSE <<>>
       /\ Built =>
            /\ lookups' = lookups
            /\ Built'
            /\ IsOk(Result) =>
                /\ IsOk(Result')
                /\ base(Result.val)' = base(Result.val)]_vars

C12_Witness ==
    /\ Built
    /\ Repr.base = [tag |-> "NamedSource", name |-> "Environment"]
    /\ IsOk(Result)
    /\ lookups = <<"Environment">>
    /\ Len(calls) = MaxHops
    /\ \E e \in DOMAIN exec : exec[e].pc = "done"

\* C13: from_repr fails exactly when the base is NamedSource(X) and the
\* registry holds no X.  An AccessKey or WebIdentityTokenRole base builds for
\* every registry without a lookup, and no declared hop (their number, an
\* empty role_arn, a present or absent external_id or session_name) makes the
\* build fail.
C13_FailsOnlyOnUnknownName ==
    Built =>
        /\ IsErr(Result) <=>
            (Repr.base.tag = "NamedSource"
                /\ Repr.base.name \notin DOMAIN providers)
        /\ Repr.base.tag /= "NamedSource" => (IsOk(Result) /\ lookups = <<>>)
        /\ IsErr(Result) => Result.error.kind = "UnknownProvider"

C13_Witness ==
    /\ Built
    /\ IsOk(Result)
    /\ DOMAIN providers = {}
    /\ Repr.base.tag = "WebIdentityTokenRole"
    /\ Len(Repr.chain) = MaxHops
    /\ Repr.chain[1] = [role_arn |-> "", external_id |-> None,
                        session_name |-> None]
    /\ Repr.chain[MaxHops].external_id = Some("eid")

\* C14: every chain whose base is NamedSource(X), X registered, builds, and
\* its base is the provider registered under X itself, not a copy and not the
\* provider of another name; two chains built from one name hold the same
\* provider.  provider(name) is the registered provider for a registered name
\* and absent for any other.
C14_SharedNamedProvider ==
    /\ \A i \in 1..Len(built) :
        (built[i].repr.base.tag = "NamedSource"
            /\ built[i].repr.base.name \in DOMAIN providers) =>
            /\ IsOk(built[i].result)
            /\ base(built[i].result.val) = providers[built[i].repr.base.name]
            /\ \A n \in DOMAIN providers \ {built[i].repr.base.name} :
                    base(built[i].result.val) /= providers[n]
            /\ \A j \in 1..Len(built) :
                (built[j].repr.base = built[i].repr.base) =>
                    /\ IsOk(built[j].result)
                    /\ base(built[j].result.val) = base(built[i].result.val)
    /\ \A n \in SourceNames :
        provider(providers, n) =
            IF n \in DOMAIN providers THEN Some(providers[n]) ELSE None

C14_Witness ==
    /\ Len(built) = 2
    /\ DOMAIN providers = ProviderNames
    /\ built[1].repr.base = [tag |-> "NamedSource", name |-> "Ecs"]
    /\ built[2].repr.base = [tag |-> "NamedSource", name |-> "Ecs"]
    /\ built[1].repr.chain /= built[2].repr.chain
    /\ base(built[1].result.val) = base(built[2].result.val)
    /\ base(built[1].result.val) = Handle("Ecs")

\* C15: the request of a hop's call carries the hop's role_arn and the
\* hop's external_id, an absent one staying absent, and its configuration
\* holds the credentials the execution passed to the hop as calling identity
\* and client_config.region as region.
C15_RequestContents ==
    \A i \in 1..Len(calls) :
        LET hop == chain(TheChain)[calls[i].hop]
            declared == Repr.chain[calls[i].hop]
            request == calls[i].request
        IN  /\ request.role_arn = hop.role_arn
            /\ request.role_arn = declared.role_arn
            /\ request.external_id = hop.external_id
            /\ request.external_id = declared.external_id
            /\ declared.external_id = None => request.external_id = None
            /\ request.config.credentials_provider
                    = exec[calls[i].exec].steps[calls[i].hop].val
            /\ request.config.region = client_region

C15_Witness ==
    /\ Len(calls) = 2
    /\ client_region = Some("us-east-1")
    /\ calls[1].request.external_id = None
    /\ calls[1].request.role_arn = ""
    /\ calls[2].request.external_id = Some("eid")
    /\ calls[2].request.config.region = Some("us-east-1")
    /\ calls[2].request.config.credentials_provider.access_key_id = "ASIA1"

\* The entries of the generator's log made at `site`.
GeneratedAt(site) ==
    { i \in 1..Len(generated) : generated[i].site = site }

\* The calls issued for a hop that has no session name of its own.
UnnamedHopCalls ==
    { i \in 1..Len(calls) : chain(TheChain)[calls[i].hop].session_name = None }

\* C16: a hop's default session name is generated when the hop is executed,
\* not when the chain is built: in the built chain every hop declared without
\* a session_name has none, and the generator is invoked with the hop tag only
\* by hop executions, once for each execution of a hop without a session name
\* and never for a hop that has one.
C16_DefaultAtExecution ==
    /\ (Built /\ IsOk(Result)) =>
        \A i \in 1..Len(Repr.chain) :
            Repr.chain[i].session_name = None
                => chain(Result.val)[i].session_name = None
    /\ \A i \in 1..Len(generated) :
        generated[i].tag = "assume-role-from-profile"
            <=> generated[i].site = "credentials"
    /\ NothingExecuted => GeneratedAt("credentials") = {}
    /\ Cardinality(GeneratedAt("credentials")) = Cardinality(UnnamedHopCalls)
    /\ \A i \in 1..Len(calls) :
        chain(TheChain)[calls[i].hop].session_name = None =>
            \E t \in 0..clock :
                calls[i].request.role_session_name
                    = default_session_name("assume-role-from-profile", t)

C16_Witness ==
    /\ Len(calls) = 2
    /\ Repr.chain[1].session_name = Some("sess")
    /\ Repr.chain[2].session_name = None
    /\ chain(Result.val)[2].session_name = None
    /\ Cardinality(GeneratedAt("credentials")) = 1
    /\ calls[2].request.role_session_name = "assume-role-from-profile-0"

\* C17: every WebIdentityTokenRole base builds, with no file access and no
\* network call by the build, and the provider built holds the declared token
\* file and role arn, and the declared session name when there is one,
\* otherwise a default generated by the build from the tag
\* "web-identity-token-profile".
C17_WebIdentityBase ==
    (Built /\ Repr.base.tag = "WebIdentityTokenRole") =>
        /\ IsOk(Result)
        /\ base(Result.val).kind = "WebIdentityTokenCredentialsProvider"
        /\ base(Result.val).static_configuration.web_identity_token_file
                = Repr.base.web_identity_token_file
        /\ base(Result.val).static_configuration.role_arn = Repr.base.role_arn
        /\ base(Result.val).region = client_region
        /\ Repr.base.session_name /= None =>
            /\ base(Result.val).static_configuration.session_name
                    = Unwrap(Repr.base.session_name)
            /\ GeneratedAt("from_repr") = {}
        /\ Repr.base.session_name = None =>
            /\ base(Result.val).static_configuration.session_name
                    = default_session_name("web-identity-token-profile", 0)
            /\ generated[1] = [tag |-> "web-identity-token-profile",
                               site |-> "from_repr"]
            /\ GeneratedAt("from_repr") = {1}
        /\ NothingExecuted => (base_io = 0 /\ calls = <<>>)

C17_Witness ==
    /\ Built
    /\ NothingExecuted
    /\ Repr.base.tag = "WebIdentityTokenRole"
    /\ Repr.base.session_name = None
    /\ Len(Repr.chain) = MaxHops
    /\ base(Result.val).static_configuration
            = [web_identity_token_file |-> "/token.jwt",
               role_arn |-> "arn:aws:iam::111111111111:role/W",
               session_name |-> "web-identity-token-profile-0"]

\* C18: no step writes the registry or a built chain: across every step (a
\* build that succeeds or fails, the start of an execution, the base
\* provider's answer, a hop's call and its answer, a cancellation) the
\* registry's mapping stays as constructed, and a chain once built keeps its
\* base, its hop list and every hop's role_arn, external_id and session_name.
C18_NothingWritten ==
    [][/\ providers' = providers
       /\ Built =>
            /\ Built'
            /\ Repr' = Repr
            /\ Result' = Result
            /\ IsOk(Result) =>
                /\ base(Result.val)' = base(Result.val)
                /\ Len(chain(Result.val)') = Len(chain(Result.val))
                /\ \A i \in 1..Len(chain(Result.val)) :
                    /\ chain(Result.val)'[i].role_arn = chain(Result.val)[i].role_arn
                    /\ chain(Result.val)'[i].external_id
                            = chain(Result.val)[i].external_id
                    /\ chain(Result.val)'[i].session_name
                            = chain(Result.val)[i].session_name]_vars

C18_Witness ==
    /\ Built
    /\ Repr.base = [tag |-> "NamedSource", name |-> "Environment"]
    /\ DOMAIN providers = ProviderNames
    /\ lookups = <<"Environment">>
    /\ Len(calls) = 2
    /\ calls[2].status = "answered"
    /\ IsErr(Unwrap(calls[2].response))
    /\ chain(Result.val)[1].session_name = None
    /\ calls[1].request.role_session_name = "assume-role-from-profile-0"

====
